---------------------------- MODULE Spec2Model ----------------------------
(***************************************************************************)
(* Respring: the damped-spring engine of src/src/spring.rs.                *)
(*                                                                         *)
(* A Spring is the triple (angular_frequency, decay_constant, mass) of     *)
(* f64.  The model keeps the f64 values as decimal fixed-point numbers:    *)
(* the integer x stands for the real x / Scale, every operation rounds to  *)
(* the nearest representable number, a result whose magnitude exceeds      *)
(* MaxFin is an infinity, and NaN is a value of its own that every         *)
(* comparison answers FALSE on, as IEEE 754 has it.  Signed zeros are not  *)
(* told apart.                                                             *)
(***************************************************************************)
EXTENDS Integers, Sequences, FiniteSets, TLC

(***************************************************************************)
(* f64                                                                     *)
(***************************************************************************)

\* The resolution of the model's reals: four decimal places.
Scale == 10 ^ 4

\* The largest finite magnitude (in units of 1/Scale): 50000.0.
MaxFin == 500000000

INFINITY == MaxFin + 1
NEG_INFINITY == -INFINITY
NAN == MaxFin + 2

\* The f64 literal n/d.
R(n, d) == (n * Scale) \div d

is_nan(x) == x = NAN
is_infinite(x) == x = INFINITY \/ x = NEG_INFINITY
is_finite(x) == ~is_nan(x) /\ ~is_infinite(x)

\* Comparisons: FALSE as soon as one operand is NaN.
lt(x, y) == ~is_nan(x) /\ ~is_nan(y) /\ x < y
le(x, y) == ~is_nan(x) /\ ~is_nan(y) /\ x <= y
gt(x, y) == ~is_nan(x) /\ ~is_nan(y) /\ x > y
ge(x, y) == ~is_nan(x) /\ ~is_nan(y) /\ x >= y
eq(x, y) == ~is_nan(x) /\ ~is_nan(y) /\ x = y
ne(x, y) == ~eq(x, y)

Sign(x) == IF x < 0 THEN -1 ELSE 1
Mag(x) == IF x < 0 THEN -x ELSE x

\* A finite result, or the infinity of its sign when it is out of range.
Fin(x) == IF x > MaxFin THEN INFINITY ELSE IF x < -MaxFin THEN NEG_INFINITY ELSE x

\* a / b rounded to the nearest integer, for a >= 0 and b > 0.
RoundDiv(a, b) == (a \div b) + (IF 2 * (a % b) >= b THEN 1 ELSE 0)

neg(x) == IF is_nan(x) THEN NAN ELSE -x

abs(x) == IF is_nan(x) THEN NAN ELSE Mag(x)

add(x, y) ==
    IF is_nan(x) \/ is_nan(y) THEN NAN
    ELSE IF is_infinite(x) THEN (IF is_infinite(y) /\ y # x THEN NAN ELSE x)
    ELSE IF is_infinite(y) THEN y
    ELSE Fin(x + y)

sub(x, y) == add(x, neg(y))

mul(x, y) ==
    IF is_nan(x) \/ is_nan(y) THEN NAN
    ELSE IF is_infinite(x) \/ is_infinite(y)
         THEN (IF x = 0 \/ y = 0 THEN NAN ELSE Sign(x) * Sign(y) * INFINITY)
    ELSE LET a == Mag(x)
             b == Mag(y)
             ah == a \div Scale
             al == a % Scale
             bh == b \div Scale
             bl == b % Scale
         IN  IF bh > 0 /\ ah > (MaxFin \div Scale) \div bh
             THEN Sign(x) * Sign(y) * INFINITY
             ELSE Fin(Sign(x) * Sign(y)
                      * (ah * bh * Scale + ah * bl + al * bh + RoundDiv(al * bl, Scale)))

\* The power of ten that brings the divisor b under 2 * 10^5.
Shrink(b) ==
    IF b <= 2 * 10 ^ 5 THEN 1
    ELSE IF b <= 2 * 10 ^ 6 THEN 10
    ELSE IF b <= 2 * 10 ^ 7 THEN 10 ^ 2
    ELSE IF b <= 2 * 10 ^ 8 THEN 10 ^ 3
    ELSE 10 ^ 4

div(x, y) ==
    IF is_nan(x) \/ is_nan(y) THEN NAN
    ELSE IF is_infinite(x)
         THEN (IF is_infinite(y) THEN NAN ELSE Sign(x) * Sign(y) * INFINITY)
    ELSE IF is_infinite(y) THEN 0
    ELSE IF y = 0 THEN (IF x = 0 THEN NAN ELSE Sign(x) * INFINITY)
    ELSE LET a == Mag(x)
             b == Mag(y)
             q == a \div b
             r == a % b
             k == Shrink(b)
         IN  IF q > MaxFin \div Scale
             THEN Sign(x) * Sign(y) * INFINITY
             ELSE Fin(Sign(x) * Sign(y)
                      * (q * Scale + RoundDiv((r \div k) * Scale, b \div k)))

\* The largest r in lo..hi with r * r <= n (hi * hi must fit 32 bits).
RECURSIVE ISqrtIn(_, _, _)
ISqrtIn(n, lo, hi) ==
    IF lo >= hi THEN lo
    ELSE LET mid == (lo + hi + 1) \div 2
         IN  IF mid * mid <= n THEN ISqrtIn(n, mid, hi) ELSE ISqrtIn(n, lo, mid - 1)

\* The integer nearest to the square root of n >= 0.
ISqrt(n) ==
    LET r == ISqrtIn(n, 0, 46340)
    IN  IF n - r * r > r THEN r + 1 ELSE r

sqrt(x) ==
    IF is_nan(x) \/ x < 0 THEN NAN
    ELSE IF x = INFINITY THEN INFINITY
    ELSE IF x <= 2 * 10 ^ 5 THEN ISqrt(x * Scale)
    ELSE IF x <= 2 * 10 ^ 7 THEN ISqrt(x * 100) * 10
    ELSE ISqrt(x) * 100

max(x, y) == IF is_nan(x) THEN y ELSE IF is_nan(y) THEN x ELSE IF x >= y THEN x ELSE y

\* TAU and PI of std::f64::consts, and f64::EPSILON (2^-52, below the
\* resolution: the smallest positive number stands for it).
TAU == 62832
PI == 31416
EPSILON == 1

\* e^k for k = 0..10; e^11 is beyond MaxFin.
ExpInt ==
    << 10000, 27183, 73891, 200855, 545982, 1484132, 4034288, 10966332,
       29809580, 81030839, 220264658 >>

\* The sum of the terms x^k / k! for k = n, n + step, ..., up to last, each
\* with the sign the series gives it (alt = -1 alternates the signs), given
\* the term for k = n.  x is finite, of magnitude at most PI.
RECURSIVE Series(_, _, _, _, _, _)
Series(x, n, step, last, alt, term) ==
    IF n > last THEN 0
    ELSE LET t1 == Sign(term) * Sign(x) * RoundDiv(Mag(term) * Mag(x), Scale * (n + 1))
             t2 == IF step = 1 THEN t1
                   ELSE Sign(t1) * Sign(x) * RoundDiv(Mag(t1) * Mag(x), Scale * (n + 2))
         IN  term + Series(x, n + step, step, last, alt, alt * t2)

\* e^y for a finite y >= 0.
ExpPos(y) ==
    IF y \div Scale > 10 THEN INFINITY
    ELSE mul(ExpInt[(y \div Scale) + 1], Series(y % Scale, 0, 1, 9, 1, Scale))

exp(x) ==
    IF is_nan(x) THEN NAN
    ELSE IF x = INFINITY THEN INFINITY
    ELSE IF x = NEG_INFINITY THEN 0
    ELSE IF x >= 0 THEN ExpPos(x)
    ELSE div(Scale, ExpPos(-x))

\* sin and cos of a finite y of magnitude at most PI / 2, by their series.
SinSeries(y) == Series(y, 1, 2, 11, -1, y)
CosSeries(y) == Series(y, 0, 2, 12, -1, Scale)

sin(x) ==
    IF ~is_finite(x) THEN NAN
    ELSE LET m == x % TAU
         IN  IF 2 * m < PI THEN SinSeries(m)
             ELSE IF 2 * m < 3 * PI THEN -SinSeries(m - PI)
             ELSE SinSeries(m - TAU)

cos(x) ==
    IF ~is_finite(x) THEN NAN
    ELSE LET m == x % TAU
         IN  IF 2 * m < PI THEN CosSeries(m)
             ELSE IF 2 * m < 3 * PI THEN -CosSeries(m - PI)
             ELSE CosSeries(m - TAU)

\* The largest k in 0..10 with e^k <= y, for a finite y >= 1.
RECURSIVE ExpFloor(_, _)
ExpFloor(y, k) == IF k < 10 /\ ExpInt[k + 2] <= y THEN ExpFloor(y, k + 1) ELSE k

\* ln of a finite y >= 1: y = e^k * z with 1 <= z < e, and
\* ln z = 2 * atanh((z - 1) / (z + 1)) by its series.
LnGe1(y) ==
    LET k == ExpFloor(y, 0)
        z == div(y, ExpInt[k + 1])
        u == div(z - Scale, z + Scale)
        u2 == mul(u, u)
        u3 == mul(u, u2)
        u5 == mul(u3, u2)
        u7 == mul(u5, u2)
        u9 == mul(u7, u2)
        u11 == mul(u9, u2)
    IN  k * Scale
        + 2 * (u + RoundDiv(u3, 3) + RoundDiv(u5, 5) + RoundDiv(u7, 7)
               + RoundDiv(u9, 9) + RoundDiv(u11, 11))

ln(x) ==
    IF is_nan(x) \/ x < 0 THEN NAN
    ELSE IF x = 0 THEN NEG_INFINITY
    ELSE IF x = INFINITY THEN INFINITY
    ELSE IF x >= Scale THEN LnGe1(x)
    ELSE LET inv == div(Scale, x)
         IN  IF is_infinite(inv) THEN NEG_INFINITY ELSE -LnGe1(inv)

(***************************************************************************)
(* Spring: constructors and derived accessors                              *)
(***************************************************************************)

new(angular_frequency, decay_constant, mass) ==
    [angular_frequency |-> angular_frequency,
     decay_constant |-> decay_constant,
     mass |-> mass]

\* bounce_damping_ratio without the `if bounce <= 1.0` guard: 1 - bounce is
\* extrapolated beyond 1.
bounce_damping_ratio_unclamped(bounce) ==
    IF gt(bounce, R(-1, 1))
    THEN IF lt(bounce, 0) THEN div(R(1, 1), add(bounce, R(1, 1)))
         ELSE IF ne(bounce, 0) THEN sub(R(1, 1), bounce)
         ELSE R(1, 1)
    ELSE INFINITY

\* The damping ratio with_duration_bounce derives from bounce.
bounce_damping_ratio(bounce) ==
    IF gt(bounce, R(-1, 1))
    THEN IF lt(bounce, 0) THEN div(R(1, 1), add(bounce, R(1, 1)))
         ELSE IF ne(bounce, 0)
              THEN (IF le(bounce, R(1, 1)) THEN sub(R(1, 1), bounce) ELSE 0)
              ELSE R(1, 1)
    ELSE INFINITY

\* with_duration_bounce without the sign of the regime: the factor is always TAU.
with_duration_bounce_unsigned(duration, bounce) ==
    LET damping_ratio == bounce_damping_ratio(bounce)
        angular_frequency ==
            div(mul(sqrt(abs(sub(R(1, 1), mul(damping_ratio, damping_ratio)))), TAU),
                duration)
        decay_constant == div(mul(damping_ratio, TAU), duration)
    IN  new(angular_frequency, decay_constant, R(1, 1))

with_duration_bounce(duration, bounce) ==
    LET damping_ratio == bounce_damping_ratio(bounce)
        angular_velocity_factor ==
            IF gt(bounce, R(-1, 1)) /\ le(damping_ratio, R(1, 1)) THEN TAU ELSE neg(TAU)
        angular_frequency ==
            div(mul(sqrt(abs(sub(R(1, 1), mul(damping_ratio, damping_ratio)))),
                    angular_velocity_factor),
                duration)
        decay_constant == div(mul(damping_ratio, TAU), duration)
    IN  new(angular_frequency, decay_constant, R(1, 1))

with_duration(duration) == with_duration_bounce(duration, 0)

\* duration with omega squared in place of omega * |omega|.
duration_squared_omega(self) ==
    LET omega == self.angular_frequency
        decay == self.decay_constant
    IN  div(TAU, sqrt(add(mul(decay, decay), mul(omega, omega))))

duration(self) ==
    LET omega == self.angular_frequency
        decay == self.decay_constant
        absolute_omega == abs(omega)
    IN  div(TAU, sqrt(add(mul(decay, decay), mul(omega, absolute_omega))))

bounce(self) ==
    LET half_decay == div(self.decay_constant, R(2, 1))
        decay_squared == mul(self.decay_constant, self.decay_constant)
        frequency_squared == mul(self.angular_frequency, self.angular_frequency)
    IN  IF ge(self.angular_frequency, 0)
        THEN LET oscillation_period ==
                     div(neg(TAU), sqrt(add(frequency_squared, decay_squared)))
             IN  add(div(mul(oscillation_period, half_decay), PI), R(1, 1))
        ELSE LET decay_period == div(TAU, sqrt(sub(decay_squared, frequency_squared)))
             IN  sub(div(R(1, 1), div(mul(decay_period, half_decay), PI)), R(1, 1))

\* with_mass_stiffness_damping that never falls back to critical damping.
with_mass_stiffness_damping_always_over(mass, stiffness, damping, allow_over_damping) ==
    LET natural_frequency == sqrt(div(stiffness, mass))
        damping_ratio == div(damping, mul(R(2, 1), mass))
        oscillation ==
            sqrt(abs(sub(div(stiffness, mass), mul(damping_ratio, damping_ratio))))
    IN  new(IF gt(damping_ratio, natural_frequency) THEN neg(oscillation) ELSE oscillation,
            damping_ratio, mass)

with_mass_stiffness_damping(mass, stiffness, damping, allow_over_damping) ==
    LET natural_frequency == sqrt(div(stiffness, mass))
        damping_ratio == div(damping, mul(R(2, 1), mass))
        oscillation ==
            sqrt(abs(sub(div(stiffness, mass), mul(damping_ratio, damping_ratio))))
    IN  IF gt(damping_ratio, natural_frequency) /\ ~allow_over_damping
        THEN new(0, natural_frequency, mass)
        ELSE new(IF gt(damping_ratio, natural_frequency)
                 THEN neg(oscillation)
                 ELSE oscillation,
                 damping_ratio, mass)

stiffness(self) ==
    mul(self.mass,
        add(mul(self.angular_frequency, self.angular_frequency),
            mul(self.decay_constant, self.decay_constant)))

damping(self) == mul(mul(self.decay_constant, R(2, 1)), self.mass)

with_response_damping_ratio(response, damping_ratio) ==
    LET is_overdamped == gt(damping_ratio, R(1, 1))
        tau_factor == IF is_overdamped THEN neg(TAU) ELSE TAU
        ratio_squared == mul(damping_ratio, damping_ratio)
        damping_offset == abs(sub(R(1, 1), ratio_squared))
        frequency_component == sqrt(damping_offset)
    IN  new(div(mul(tau_factor, frequency_component), response),
            div(mul(TAU, damping_ratio), response),
            R(1, 1))

response(self) ==
    LET damping_squared == mul(self.decay_constant, self.decay_constant)
        response_term == mul(self.angular_frequency, abs(self.angular_frequency))
    IN  div(TAU, sqrt(add(damping_squared, response_term)))

damping_ratio(self) == div(mul(self.decay_constant, response(self)), TAU)

(***************************************************************************)
(* VectorArithmetic for f64, and motion evaluation                         *)
(***************************************************************************)

ZERO == R(0, 1)

magnitude_squared(self) == mul(self, self)

scaled_by(self, scalar) == mul(self, scalar)

\* value by the critically damped formula in every regime, with the target
\* left out of the displacement.
value_from_target(self, target, initial_velocity, time) ==
    LET displacement ==
            scaled_by(sub(scaled_by(target, self.decay_constant), initial_velocity), time)
        damping_term == exp(mul(neg(self.decay_constant), time))
    IN  sub(target, scaled_by(displacement, damping_term))

value(self, target, initial_velocity, time) ==
    IF gt(self.angular_frequency, 0)
    THEN LET angle == mul(self.angular_frequency, time)
             sin_val == sin(angle)
             cos_val == cos(angle)
             displacement ==
                 add(scaled_by(sub(scaled_by(target, self.decay_constant),
                                   initial_velocity),
                               div(sin_val, self.angular_frequency)),
                     scaled_by(target, cos_val))
         IN  sub(target, scaled_by(displacement, exp(mul(neg(self.decay_constant), time))))
    ELSE IF lt(self.angular_frequency, 0)
    THEN LET negative_freq_minus_damping ==
                 sub(neg(self.angular_frequency), self.decay_constant)
             exp_term1 == exp(mul(negative_freq_minus_damping, time))
             exp_term2 ==
                 exp(mul(sub(self.angular_frequency, self.decay_constant), time))
             damping_factor ==
                 add(mul(sub(self.decay_constant, self.angular_frequency), exp_term1),
                     mul(negative_freq_minus_damping, exp_term2))
             scale_factor ==
                 add(div(damping_factor, mul(self.angular_frequency, R(2, 1))), R(1, 1))
             velocity_factor ==
                 div(sub(exp_term1, exp_term2), mul(self.angular_frequency, R(2, 1)))
         IN  sub(scaled_by(target, scale_factor),
                 scaled_by(initial_velocity, velocity_factor))
    ELSE LET displacement ==
                 add(target,
                     scaled_by(sub(scaled_by(target, self.decay_constant),
                                   initial_velocity),
                               time))
             damping_term == exp(mul(neg(self.decay_constant), time))
         IN  sub(target, scaled_by(displacement, damping_term))

velocity(self, target, initial_velocity, time) ==
    IF gt(self.angular_frequency, 0)
    THEN LET damping_term == exp(mul(neg(self.decay_constant), time))
             angle == mul(self.angular_frequency, time)
             sin_val == sin(angle)
             cos_val == cos(angle)
             target_term ==
                 scaled_by(target,
                           mul(add(mul(self.angular_frequency, sin_val),
                                   mul(self.decay_constant, cos_val)),
                               damping_term))
             displacement_factor ==
                 div(mul(sub(mul(self.decay_constant, sin_val),
                             mul(self.angular_frequency, cos_val)),
                         damping_term),
                     self.angular_frequency)
             velocity_term ==
                 scaled_by(sub(scaled_by(target, self.decay_constant), initial_velocity),
                           displacement_factor)
         IN  add(velocity_term, target_term)
    ELSE IF lt(self.angular_frequency, 0)
    THEN LET negative_freq_minus_damping ==
                 sub(neg(self.angular_frequency), self.decay_constant)
             damping_minus_freq == sub(self.angular_frequency, self.decay_constant)
             exp_term1 == exp(mul(negative_freq_minus_damping, time))
             exp_term2 == exp(mul(damping_minus_freq, time))
             term1 == mul(negative_freq_minus_damping, exp_term1)
             term2 == mul(damping_minus_freq, exp_term2)
             scale_factor ==
                 add(div(add(mul(sub(self.decay_constant, self.angular_frequency), term1),
                             mul(negative_freq_minus_damping, term2)),
                         mul(self.angular_frequency, R(2, 1))),
                     R(1, 1))
             velocity_factor ==
                 div(sub(term1, term2), mul(self.angular_frequency, R(2, 1)))
         IN  sub(scaled_by(target, scale_factor),
                 scaled_by(initial_velocity, velocity_factor))
    ELSE LET damping_term == exp(mul(neg(self.decay_constant), time))
             time_factor ==
                 mul(sub(mul(self.decay_constant, time), R(1, 1)), damping_term)
             velocity_delta == sub(scaled_by(target, self.decay_constant), initial_velocity)
             damped_target == scaled_by(target, mul(self.decay_constant, damping_term))
         IN  add(scaled_by(velocity_delta, time_factor), damped_target)

\* update that overwrites the velocity slot before it evaluates the value.
update_velocity_first(self, value0, velocity0, target, delta_time) ==
    LET delta == sub(target, value0)
        delta_velocity == velocity(self, delta, velocity0, delta_time)
        delta_value == value(self, delta, delta_velocity, delta_time)
    IN  [value |-> add(value0, delta_value), velocity |-> delta_velocity]

\* update(&mut value, &mut velocity, target, delta_time): the two slots after it.
update(self, value0, velocity0, target, delta_time) ==
    LET delta == sub(target, value0)
        delta_velocity == velocity(self, delta, velocity0, delta_time)
        delta_value == value(self, delta, velocity0, delta_time)
    IN  [value |-> add(value0, delta_value), velocity |-> delta_velocity]

force(self, target, position, velocity0) ==
    LET damping_force ==
            scaled_by(velocity0, mul(mul(neg(self.decay_constant), R(2, 1)), self.mass))
        delta == sub(target, position)
        spring_force ==
            scaled_by(delta,
                      mul(add(mul(self.angular_frequency, self.angular_frequency),
                              mul(self.decay_constant, self.decay_constant)),
                          self.mass))
    IN  add(spring_force, damping_force)

(***************************************************************************)
(* settling_duration_with_velocity, by its parts                           *)
(***************************************************************************)

\* The budget of the search loop, `for _ in 0..1024`.
MaxSamples == 1024

\* The search step: time += 0.1.
SampleStep == R(1, 10)

\* The entry tests in the other order: angular_frequency <= 0 before
\* decay_constant == 0.
settling_entry_frequency_first(self) ==
    IF le(self.angular_frequency, ZERO) THEN "loop"
    ELSE IF eq(self.decay_constant, ZERO) THEN "return_402"
    ELSE "return_440"

\* Where settling_duration_with_velocity goes from its entry: the return of
\* line 402, the search loop, or the closed form returned at line 440.
settling_entry(self) ==
    IF eq(self.decay_constant, ZERO) THEN "return_402"
    ELSE IF le(self.angular_frequency, ZERO) THEN "loop"
    ELSE "return_440"

\* The closed form of the underdamped branch.
settling_closed_form(self, target, initial_velocity, epsilon) ==
    LET magnitude ==
            add(sqrt(magnitude_squared(sub(scaled_by(target, self.decay_constant),
                                           initial_velocity))),
                sqrt(magnitude_squared(target)))
        settling_time == div(neg(ln(div(epsilon, magnitude))), self.decay_constant)
    IN  max(settling_time, ZERO)

\* The distance to the target the loop samples at `time`.
sample_distance(self, target, initial_velocity, t) ==
    LET current_value == value(self, target, initial_velocity, t)
        diff == sub(current_value, target)
    IN  sqrt(magnitude_squared(diff))

\* The loop body that confirms settlement as soon as 1.0 has elapsed, not
\* after more than 1.0.
search_step_at_least_one(distance, epsilon, loc) ==
    IF is_nan(distance) \/ is_infinite(distance)
    THEN [loc EXCEPT !.pc = "return_432", !.ret = ZERO]
    ELSE IF ge(loc.best_distance, epsilon)
    THEN IF lt(distance, loc.best_distance)
         THEN [loc EXCEPT !.best_time = loc.time, !.best_distance = distance,
                          !.time = add(loc.time, SampleStep)]
         ELSE [loc EXCEPT !.time = add(loc.time, SampleStep)]
    ELSE IF ge(distance, epsilon)
    THEN [loc EXCEPT !.best_distance = INFINITY, !.time = add(loc.time, SampleStep)]
    ELSE IF ge(sub(loc.time, loc.best_time), R(1, 1))
    THEN [loc EXCEPT !.pc = "return_426", !.ret = loc.best_time]
    ELSE [loc EXCEPT !.time = add(loc.time, SampleStep)]

\* The loop body after the distance is computed: the locals after it, where
\* control goes (the next iteration, or a return) and what is returned.
search_step(distance, epsilon, loc) ==
    IF is_nan(distance) \/ is_infinite(distance)
    THEN [loc EXCEPT !.pc = "return_432", !.ret = ZERO]
    ELSE IF ge(loc.best_distance, epsilon)
    THEN IF lt(distance, loc.best_distance)
         THEN [loc EXCEPT !.best_time = loc.time, !.best_distance = distance,
                          !.time = add(loc.time, SampleStep)]
         ELSE [loc EXCEPT !.time = add(loc.time, SampleStep)]
    ELSE IF ge(distance, epsilon)
    THEN [loc EXCEPT !.best_distance = INFINITY, !.time = add(loc.time, SampleStep)]
    ELSE IF gt(sub(loc.time, loc.best_time), R(1, 1))
    THEN [loc EXCEPT !.pc = "return_426", !.ret = loc.best_time]
    ELSE [loc EXCEPT !.time = add(loc.time, SampleStep)]

(***************************************************************************)
(* with_settling_duration_damping_ratio, by its parts                      *)
(***************************************************************************)

\* f64::clamp: NaN stays NaN.
clamp(x, lo, hi) ==
    IF is_nan(x) THEN NAN ELSE IF x < lo THEN lo ELSE IF x > hi THEN hi ELSE x

\* x * 1e5 (1e5 itself is beyond the finite range of the model).
times_1e5(x) ==
    IF is_nan(x) THEN NAN
    ELSE IF is_infinite(x) THEN x
    ELSE IF Mag(x) > MaxFin \div 100000 THEN Sign(x) * INFINITY
    ELSE x * 100000

\* The clamped arguments and the values derived from them, lines 243-249.
settling_terms(settling_duration, ratio, epsilon) ==
    LET z == clamp(ratio, EPSILON, R(1, 1))
        d == clamp(settling_duration, R(1, 100), R(10, 1))
        nf == sqrt(sub(R(1, 1), mul(z, z)))
    IN  [damping_ratio |-> z,
         duration |-> d,
         damping_squared_duration |-> mul(mul(z, z), d),
         natural_frequency |-> nf,
         damping_frequency_ratio |-> div(z, nf),
         damped_time |-> mul(d, z),
         epsilon |-> epsilon]

damped_oscillation(c, x) ==
    sub(c.epsilon, abs(mul(c.damping_frequency_ratio, exp(mul(neg(c.damped_time), x)))))

damped_response(c, x) ==
    LET squared_x == mul(x, x)
        damping_term == mul(squared_x, c.damping_squared_duration)
    IN  div(damping_term,
            mul(mul(exp(mul(c.damped_time, x)), squared_x), c.natural_frequency))

critical_response(c, x) ==
    LET threshold == IF lt(x, ZERO) THEN neg(c.epsilon) ELSE c.epsilon
        resp == mul(c.duration, x)
    IN  sub(mul(exp(neg(resp)), add(resp, R(1, 1))), threshold)

critical_derivative(c, x) ==
    div(mul(mul(neg(c.duration), c.duration), x), exp(mul(c.duration, x)))

\* The pair chosen at lines 331-336.
response_function(c, x) ==
    IF ge(c.damping_ratio, R(1, 1)) THEN critical_response(c, x)
    ELSE damped_oscillation(c, x)

derivative_function(c, x) ==
    IF ge(c.damping_ratio, R(1, 1)) THEN critical_derivative(c, x)
    ELSE damped_response(c, x)

\* One Newton update, x - response(x) / derivative(at).
newton(c, x, at) ==
    sub(x, div(response_function(c, x), derivative_function(c, at)))

\* find_root on entry, lines 257-262.
find_root_enter(c, initial_guess, max_iterations) ==
    LET time_scale == div(R(1, 1), c.duration)
        scaled_value == mul(time_scale, initial_guess)
    IN  [at |-> "first", initial_guess |-> initial_guess,
         max_iterations |-> max_iterations,
         remaining_iterations |-> max_iterations,
         next_value |-> ZERO, scaled_value |-> scaled_value,
         approximation |-> scaled_value, difference |-> ZERO,
         flag |-> FALSE, iterates |-> << >>]

\* Lines 264-275: the first update.
find_root_first(c, fr) ==
    LET next_value == newton(c, fr.approximation, fr.approximation)
        seen == [fr EXCEPT !.next_value = next_value, !.approximation = next_value,
                           !.iterates = Append(fr.iterates, next_value)]
    IN  IF is_infinite(next_value) \/ is_nan(next_value)
        THEN [seen EXCEPT !.at = "return", !.flag = FALSE]
        ELSE IF fr.remaining_iterations = 1
        THEN [seen EXCEPT !.at = "return", !.flag = TRUE]
        ELSE [seen EXCEPT !.at = "second"]

\* Lines 276-288: the second update.
find_root_second(c, fr) ==
    LET scaled_value == newton(c, fr.next_value, fr.approximation)
        seen == [fr EXCEPT !.scaled_value = scaled_value,
                           !.approximation = scaled_value,
                           !.iterates = Append(fr.iterates, scaled_value)]
        left == fr.remaining_iterations - 2
    IN  IF is_infinite(scaled_value) \/ is_nan(scaled_value)
        THEN [seen EXCEPT !.at = "return", !.flag = FALSE]
        ELSE IF left = 0
        THEN [seen EXCEPT !.at = "return", !.flag = TRUE,
                          !.remaining_iterations = left]
        ELSE [seen EXCEPT !.at = "loop", !.remaining_iterations = left,
                          !.difference = sub(fr.next_value, scaled_value)]

\* The loop's exit test that lets one more iteration through.
budget_spent_below_zero(remaining_iterations) == remaining_iterations < 0

\* Line 305: if remaining_iterations <= 0 { break; }
budget_spent(remaining_iterations) == remaining_iterations <= 0

\* Lines 289-310: one iteration of the loop, and the return after the break.
find_root_loop(c, fr) ==
    LET current_value == newton(c, fr.scaled_value, fr.approximation)
        seen == [fr EXCEPT !.approximation = current_value,
                           !.iterates = Append(fr.iterates, current_value)]
        time_scale == abs(sub(current_value, fr.scaled_value))
        left == fr.remaining_iterations - 1
        next == [seen EXCEPT !.difference = sub(fr.scaled_value, current_value),
                             !.scaled_value = current_value,
                             !.remaining_iterations = left]
    IN  IF is_infinite(current_value) \/ is_nan(current_value)
        THEN [seen EXCEPT !.at = "return", !.flag = FALSE]
        ELSE IF le(time_scale, c.epsilon)
        THEN [seen EXCEPT !.at = "return",
                          !.flag = le(fr.difference, times_1e5(c.epsilon))]
        ELSE IF budget_spent(left)
        THEN [next EXCEPT !.at = "return", !.flag = TRUE]
        ELSE next

\* The second pass run whatever the first returned.
runs_second_pass_always(first_flag) == TRUE

\* Line 340: the second pass is the body of `if find_root(5.0, 12, ...)`.
runs_second_pass(first_flag) == first_flag

\* Lines 356-374: the spring built from the root.
spring_from_root(root_value, z) ==
    LET omega_squared == mul(root_value, root_value)
        half_omega == div(mul(mul(root_value, R(2, 1)), z), R(2, 1))
        omega == sqrt(abs(sub(omega_squared, mul(half_omega, half_omega))))
        decay == IF ge(root_value, half_omega) THEN half_omega ELSE root_value
    IN  new(IF lt(root_value, half_omega) THEN ZERO ELSE omega, decay, R(1, 1))

(***************************************************************************)
(* The state: a spring, the call in progress or last made on it with its   *)
(* result, the caller's (value, velocity) pair that update overwrites, and *)
(* the locals of the search loop of settling_duration_with_velocity.       *)
(***************************************************************************)
VARIABLES
    spring,         \* the Spring the calls are made on
    call,           \* the call: its name and arguments
    out,            \* [name, val]: the last result returned and by what
    pc,             \* where the call stands
    cur_value,      \* the caller's value slot, passed to update as &mut
    cur_velocity,   \* the caller's velocity slot, passed to update as &mut
    steps,          \* update calls made so far
    best_time,      \* settling search: local best_time
    time,           \* settling search: local time
    best_distance,  \* settling search: local best_distance
    iter,           \* settling search: iterations of `for _ in 0..1024` begun
    distances,      \* settling search: the distances sampled so far, in order
    finder,         \* find_root: its parameters, locals and position
    root_value,     \* with_settling_duration_damping_ratio: local root_value
    passes          \* the find_root calls that have returned, in order

vars ==
    << spring, call, out, pc, cur_value, cur_velocity, steps, best_time, time,
       best_distance, iter, distances, finder, root_value, passes >>

slotVars == << cur_value, cur_velocity, steps >>
searchVars == << best_time, time, best_distance, iter, distances >>
rootVars == << finder, root_value, passes >>

NoOut == [name |-> "none", val |-> ZERO]

\* The locals of the search before the loop is entered.
SearchIdle ==
    /\ best_time = ZERO
    /\ time = ZERO
    /\ best_distance = ZERO
    /\ iter = 0
    /\ distances = << >>

\* No find_root call has been made.
NoFinder == [at |-> "none"]

RootIdle ==
    /\ finder = NoFinder
    /\ root_value = ZERO
    /\ passes = << >>

SlotsIdle ==
    /\ cur_value = ZERO
    /\ cur_velocity = ZERO
    /\ steps = 0

(***************************************************************************)
(* Construction and accessors                                              *)
(***************************************************************************)

Durations == {R(1, 2), R(1, 1), R(2, 1), R(4, 1)}
Bounces ==
    {R(-3, 2), R(-1, 1), R(-1, 2), R(-1, 4), R(-1, 10), ZERO, R(1, 10), R(3, 10),
     R(1, 2), R(1, 1), R(3, 2), R(2, 1)}
Masses == {R(1, 1), R(2, 1)}
Stiffnesses == {R(1, 1), R(3, 1), R(4, 1)}
\* 2 * sqrt(3) is the critical damping of mass 1 and stiffness 3.
Dampings == {R(1, 1), R(2, 1), mul(R(2, 1), sqrt(R(3, 1))), R(4, 1), R(8, 1)}

ConstructCalls ==
    [name : {"with_duration_bounce"}, duration : Durations, bounce : Bounces]
    \cup
    [name : {"with_mass_stiffness_damping"}, mass : Masses, stiffness : Stiffnesses,
     damping : Dampings, allow_over_damping : BOOLEAN]

InitConstruct ==
    /\ call \in ConstructCalls
    /\ pc = "call"
    /\ spring = new(ZERO, ZERO, ZERO)
    /\ out = NoOut
    /\ SlotsIdle
    /\ SearchIdle
    /\ RootIdle

Construct_with_duration_bounce ==
    /\ pc = "call"
    /\ call.name = "with_duration_bounce"
    /\ spring' = with_duration_bounce(call.duration, call.bounce)
    /\ pc' = "built"
    /\ UNCHANGED << call, out, slotVars, rootVars, searchVars >>

Construct_with_mass_stiffness_damping ==
    /\ pc = "call"
    /\ call.name = "with_mass_stiffness_damping"
    /\ spring' = with_mass_stiffness_damping(call.mass, call.stiffness, call.damping,
                                             call.allow_over_damping)
    /\ pc' = "built"
    /\ UNCHANGED << call, out, slotVars, rootVars, searchVars >>

Get_duration ==
    /\ pc = "built"
    /\ out' = [name |-> "duration", val |-> duration(spring)]
    /\ UNCHANGED << spring, call, pc, slotVars, rootVars, searchVars >>

Get_bounce ==
    /\ pc = "built"
    /\ out' = [name |-> "bounce", val |-> bounce(spring)]
    /\ UNCHANGED << spring, call, pc, slotVars, rootVars, searchVars >>

Get_stiffness ==
    /\ pc = "built"
    /\ out' = [name |-> "stiffness", val |-> stiffness(spring)]
    /\ UNCHANGED << spring, call, pc, slotVars, rootVars, searchVars >>

Get_damping ==
    /\ pc = "built"
    /\ out' = [name |-> "damping", val |-> damping(spring)]
    /\ UNCHANGED << spring, call, pc, slotVars, rootVars, searchVars >>

NextConstruct ==
    \/ Construct_with_duration_bounce
    \/ Construct_with_mass_stiffness_damping
    \/ Get_duration
    \/ Get_bounce
    \/ Get_stiffness
    \/ Get_damping

SpecConstruct == InitConstruct /\ [][NextConstruct]_vars

(***************************************************************************)
(* Claims on construction and accessors                                    *)
(***************************************************************************)

\* "Up to rounding": within one hundredth.
Tol == Scale \div 100
Close(x, y) == is_finite(x) /\ is_finite(y) /\ Mag(x - y) <= Tol

Built(name) == pc = "built" /\ call.name = name

\* C1: for mass, stiffness, damping > 0 the spring built by
\* with_mass_stiffness_damping(m, k, c, true) gives back stiffness() = k and
\* damping() = c, up to rounding, in every regime.
C1_StiffnessDampingRoundTrip ==
    (Built("with_mass_stiffness_damping") /\ call.allow_over_damping)
        => /\ out.name = "stiffness" => Close(out.val, call.stiffness)
           /\ out.name = "damping" => Close(out.val, call.damping)

\* C3 as claimed: for bounce > 1 the damping ratio is 1 - bounce extrapolated, so
\* the decay constant is (1 - bounce) * TAU / duration.
C3_BounceExtrapolated ==
    (Built("with_duration_bounce") /\ gt(call.bounce, R(1, 1)))
        => Close(spring.decay_constant,
                 div(mul(sub(R(1, 1), call.bounce), TAU), call.duration))

\* C3 as amended: for bounce > 1 the damping ratio is 0, whatever the excess: the
\* spring is the undamped one of bounce = 1, angular_frequency = TAU / duration
\* and decay_constant = 0, with mass 1.
C3_BounceAboveOneIsUndamped ==
    (Built("with_duration_bounce") /\ gt(call.bounce, R(1, 1)))
        => /\ spring.decay_constant = ZERO
           /\ spring.angular_frequency = div(TAU, call.duration)
           /\ spring.mass = R(1, 1)

C3_Witness ==
    /\ Built("with_duration_bounce")
    /\ call.bounce = R(2, 1)
    /\ spring.decay_constant = ZERO

Z6 == div(call.damping, mul(R(2, 1), call.mass))
N6 == sqrt(div(call.stiffness, call.mass))

\* The clauses of C6 that do not depend on z = n.
C6_Unequal ==
    /\ (gt(Z6, N6) /\ ~call.allow_over_damping)
        => spring.angular_frequency = ZERO /\ spring.decay_constant = N6
    /\ (gt(Z6, N6) /\ call.allow_over_damping)
        => lt(spring.angular_frequency, ZERO) /\ spring.decay_constant = Z6
    /\ lt(Z6, N6)
        => gt(spring.angular_frequency, ZERO) /\ spring.decay_constant = Z6
    /\ spring.mass = call.mass

\* C6 as claimed: the three regimes by z against n, and for z = n
\* angular_frequency = 0 and decay_constant = z.
C6_RegimesExactZero ==
    Built("with_mass_stiffness_damping")
        => /\ C6_Unequal
           /\ eq(Z6, N6)
               => spring.angular_frequency = ZERO /\ spring.decay_constant = Z6

\* C6 as amended: for z = n the angular frequency is |k/m - z*z|^0.5, the square
\* root of a rounding error: it is not negative and its square is 0 up to
\* rounding, but it is 0 itself only when z*z gives back k/m exactly; the
\* decay constant is z, and the other clauses stand.
C6_RegimesZeroUpToRounding ==
    Built("with_mass_stiffness_damping")
        => /\ C6_Unequal
           /\ eq(Z6, N6)
               => /\ ge(spring.angular_frequency, ZERO)
                  /\ le(mul(spring.angular_frequency, spring.angular_frequency), Tol)
                  /\ spring.decay_constant = Z6

C6_Witness ==
    /\ Built("with_mass_stiffness_damping")
    /\ call.stiffness = R(3, 1)
    /\ call.mass = R(1, 1)
    /\ eq(Z6, N6)
    /\ gt(spring.angular_frequency, ZERO)

(***************************************************************************)
(* Motion: value, velocity and update on a constructed spring              *)
(***************************************************************************)

\* How many update calls a behaviour makes.
MaxUpdates == 3

\* One spring per constructor and regime: under-, critically and over-damped.
MotionSprings ==
    {with_duration_bounce(R(2, 1), R(3, 10)),
     with_duration(R(2, 1)),
     with_duration_bounce(R(2, 1), R(-1, 2)),
     with_mass_stiffness_damping(R(1, 1), R(4, 1), R(5, 1), TRUE),
     new(R(3, 1), R(1, 1), R(1, 1)),
     new(ZERO, R(2, 1), R(1, 1))}

Targets == {R(1, 1), R(-2, 1)}
Velocities == {ZERO, R(3, 2)}
Times == {ZERO, R(1, 10), R(3, 10), R(1, 2), R(1, 1), R(2, 1)}
DeltaTimes == {ZERO, R(1, 4)}

EvalCalls ==
    [name : {"value", "velocity"}, target : Targets, initial_velocity : Velocities,
     time : Times]

InitEval ==
    /\ spring \in MotionSprings
    /\ call \in EvalCalls
    /\ out = NoOut
    /\ pc = "call"
    /\ SlotsIdle
    /\ SearchIdle
    /\ RootIdle

Eval_value ==
    /\ pc = "call"
    /\ call.name = "value"
    /\ out' = [name |-> "value",
               val |-> value(spring, call.target, call.initial_velocity, call.time)]
    /\ pc' = "done"
    /\ UNCHANGED << spring, call, slotVars, rootVars, searchVars >>

Eval_velocity ==
    /\ pc = "call"
    /\ call.name = "velocity"
    /\ out' = [name |-> "velocity",
               val |-> velocity(spring, call.target, call.initial_velocity, call.time)]
    /\ pc' = "done"
    /\ UNCHANGED << spring, call, slotVars, rootVars, searchVars >>

NextEval ==
    \/ Eval_value
    \/ Eval_velocity

SpecEval == InitEval /\ [][NextEval]_vars

\* The caller's animation loop: one update per frame on its two slots.
InitUpdate ==
    /\ spring \in MotionSprings
    /\ call = [name |-> "none"]
    /\ out = NoOut
    /\ pc = "built"
    /\ SlotsIdle
    /\ SearchIdle
    /\ RootIdle

Update ==
    \E target \in Targets, delta_time \in DeltaTimes :
        /\ steps < MaxUpdates
        /\ LET after == update(spring, cur_value, cur_velocity, target, delta_time)
           IN  /\ cur_value' = after.value
               /\ cur_velocity' = after.velocity
        /\ steps' = steps + 1
        /\ call' = [name |-> "update", target |-> target, delta_time |-> delta_time]
        /\ UNCHANGED << spring, out, pc, searchVars, rootVars >>

NextUpdate == Update

SpecUpdate == InitUpdate /\ [][NextUpdate]_vars

(***************************************************************************)
(* Claims on motion                                                        *)
(***************************************************************************)

\* The central difference quotient of value over [time - 0.02, time + 0.02].
DiffStep == R(1, 50)
ValueSlope(self, target, initial_velocity, t) ==
    div(sub(value(self, target, initial_velocity, add(t, DiffStep)),
            value(self, target, initial_velocity, sub(t, DiffStep))),
        mul(R(2, 1), DiffStep))

\* What the quotient may differ by from the derivative: the model's rounding
\* and the third-order term of the expansion.
SlopeTol == Scale \div 10

\* C2: in each regime velocity(target, initial_velocity, t) is the time
\* derivative of value(target, initial_velocity, t): the slope of value at t,
\* taken over a short interval, agrees with it.
C2_VelocityIsDerivativeOfValue ==
    out.name = "velocity"
        => LET slope == ValueSlope(spring, call.target, call.initial_velocity, call.time)
           IN  is_finite(slope) /\ is_finite(out.val) /\ Mag(out.val - slope) <= SlopeTol

\* C2 restricted to the underdamped and critically damped regimes.
C2_HoldsUnlessOverdamped ==
    (out.name = "velocity" /\ ge(spring.angular_frequency, ZERO))
        => LET slope == ValueSlope(spring, call.target, call.initial_velocity, call.time)
           IN  is_finite(slope) /\ is_finite(out.val) /\ Mag(out.val - slope) <= SlopeTol

C8_UpdateFrame ==
    [][steps' # steps
        => LET delta == sub(call'.target, cur_value)
           IN  /\ call'.name = "update"
               /\ cur_velocity' = velocity(spring, delta, cur_velocity, call'.delta_time)
               /\ cur_value'
                    = add(cur_value, value(spring, delta, cur_velocity, call'.delta_time))
               /\ spring' = spring
               /\ UNCHANGED << out, pc, searchVars, rootVars >>]_vars

C8_Witness ==
    /\ call.name = "update"
    /\ call.delta_time = R(1, 4)
    /\ steps = 2
    /\ gt(spring.angular_frequency, ZERO)
    /\ ne(cur_value, ZERO)
    /\ ne(cur_velocity, ZERO)

(***************************************************************************)
(* One call of settling_duration_with_velocity, step by step               *)
(***************************************************************************)

SettleSprings ==
    {with_duration(R(1, 1)),
     with_duration_bounce(R(1, 1), R(-1, 2)),
     with_duration_bounce(R(1, 1), R(3, 10)),
     with_duration_bounce(R(1, 1), R(1, 1)),
     new(ZERO, R(2, 1), R(1, 1)),
     new(ZERO, R(1, 100), R(1, 1)),
     new(ZERO, R(-1, 1), R(1, 1)),
     new(ZERO, ZERO, R(1, 1)),
     new(R(-1, 1), ZERO, R(1, 1))}

SettleCalls ==
    [name : {"settling_duration_with_velocity"}, target : {R(1, 1), NAN},
     initial_velocity : {ZERO, R(4, 1)}, epsilon : {R(1, 1000), R(1, 20)}]

Returned == pc \in {"return_402", "return_426", "return_432", "return_440"}

InitSettle ==
    /\ spring \in SettleSprings
    /\ call \in SettleCalls
    /\ out = NoOut
    /\ pc = "call"
    /\ SlotsIdle
    /\ SearchIdle
    /\ RootIdle

\* Lines 401-409 and 435-440: the early return, the loop's locals, or the
\* closed form.
Settle_enter ==
    /\ pc = "call"
    /\ pc' = settling_entry(spring)
    /\ IF pc' = "return_402"
       THEN /\ out' = [name |-> call.name, val |-> INFINITY]
            /\ UNCHANGED searchVars
       ELSE IF pc' = "loop"
       THEN /\ best_time' = R(-1, 1)
            /\ time' = ZERO
            /\ best_distance' = INFINITY
            /\ UNCHANGED << out, iter, distances >>
       ELSE /\ out' = [name |-> call.name,
                       val |-> settling_closed_form(spring, call.target,
                                                    call.initial_velocity, call.epsilon)]
            /\ UNCHANGED searchVars
    /\ UNCHANGED << spring, call, slotVars, rootVars >>

\* Lines 410-430: one iteration of the loop.
Settle_sample ==
    /\ pc = "loop"
    /\ iter < MaxSamples
    /\ LET distance ==
               sample_distance(spring, call.target, call.initial_velocity, time)
           after ==
               search_step(distance, call.epsilon,
                           [pc |-> "loop", ret |-> ZERO, best_time |-> best_time,
                            time |-> time, best_distance |-> best_distance])
       IN  /\ distances' = Append(distances, distance)
           /\ pc' = after.pc
           /\ best_time' = after.best_time
           /\ time' = after.time
           /\ best_distance' = after.best_distance
           /\ out' = IF after.pc = "loop" THEN out
                     ELSE [name |-> call.name, val |-> after.ret]
    /\ iter' = iter + 1
    /\ UNCHANGED << spring, call, slotVars, rootVars >>

\* Line 432: the loop ran out of iterations.
Settle_exhausted ==
    /\ pc = "loop"
    /\ iter = MaxSamples
    /\ pc' = "return_432"
    /\ out' = [name |-> call.name, val |-> ZERO]
    /\ UNCHANGED << spring, call, slotVars, rootVars, searchVars >>

NextSettle ==
    \/ Settle_enter
    \/ Settle_sample
    \/ Settle_exhausted

SpecSettle == InitSettle /\ [][NextSettle]_vars

(***************************************************************************)
(* Claims about the settling search                                        *)
(***************************************************************************)

\* The time of the i-th sample of the loop, counting from 1.
SampleTime(i) == (i - 1) * SampleStep

\* The sample of the loop taken at time t, or 0 if t is not a sampled time.
SampleAt(t) ==
    IF is_finite(t) /\ t >= 0 /\ t % SampleStep = 0 /\ t \div SampleStep < Len(distances)
    THEN t \div SampleStep + 1
    ELSE 0

\* C9: when the search returns from inside the loop, for a finite epsilon > 0,
\* the returned time t is a sampled time at which the distance to the target
\* is below epsilon; the sample before t, if any, is at or above epsilon; every
\* sample from t to the returning one is below epsilon; and the returning
\* sample is the first whose time exceeds t by more than 1.0.
C9_SettledRun ==
    pc = "return_426" =>
        LET t == out.val
            k == SampleAt(t)
            n == Len(distances)
        IN  /\ k >= 1
            /\ lt(distances[k], call.epsilon)
            /\ k > 1 => ge(distances[k - 1], call.epsilon)
            /\ \A j \in k..n : lt(distances[j], call.epsilon)
            /\ time = SampleTime(n)
            /\ gt(sub(SampleTime(n), t), R(1, 1))
            /\ \A j \in k..(n - 1) : ~gt(sub(SampleTime(j), t), R(1, 1))

\* The search confirmed a run that started after an earlier run below epsilon
\* had been broken by a sample at or above epsilon.
C9_Witness ==
    /\ pc = "return_426"
    /\ SampleAt(out.val) > 2
    /\ \E i \in 1..Len(distances) :
           /\ SampleTime(i) < out.val
           /\ lt(distances[i], call.epsilon)

\* C10: the search evaluates at most 1024 samples, at times 0, 0.1, ..., 102.3,
\* and every step of a call moves it strictly towards its return (the entry,
\* then one step per sample, then the return); it returns exactly 0.0 when a
\* sampled distance is NaN or infinite (and that sample is the last one), or
\* when all 1024 samples were evaluated without a return from inside the loop;
\* a spring with decay_constant == 0 returns +infinity with no sample taken,
\* whatever its angular_frequency.
C10_Budget ==
    LET n == Len(distances)
        NonFinite(i) == is_nan(distances[i]) \/ is_infinite(distances[i])
    IN  /\ n <= MaxSamples
        /\ iter = n
        /\ pc = "loop" => time = SampleTime(n + 1)
        /\ n > 0 => le(SampleTime(n), R(1023, 10))
        /\ \A i \in 1..n : NonFinite(i) => i = n /\ pc = "return_432"
        /\ pc = "return_432" =>
               /\ out.val = ZERO
               /\ n = MaxSamples \/ (n > 0 /\ NonFinite(n))
        /\ (Returned /\ n = MaxSamples /\ pc # "return_426") =>
               pc = "return_432"
        /\ (Returned /\ eq(spring.decay_constant, ZERO)) =>
               pc = "return_402" /\ out.val = INFINITY /\ n = 0
        /\ (Returned /\ ne(spring.decay_constant, ZERO)
                     /\ le(spring.angular_frequency, ZERO)) =>
               pc \in {"return_426", "return_432"}

\* How far a call has got: 0 at its entry, 1 + the samples taken inside the
\* loop, MaxSamples + 2 once it has returned.
Progress ==
    IF pc = "call" THEN 0
    ELSE IF pc = "loop" THEN 1 + iter
    ELSE MaxSamples + 2

C10_SearchBudget == []C10_Budget /\ [][Progress' > Progress]_vars

\* The search used up all 1024 samples and returned 0.0.
C10_Witness ==
    /\ pc = "return_432"
    /\ Len(distances) = MaxSamples
    /\ \A i \in 1..MaxSamples : is_finite(distances[i])
    /\ out.val = ZERO

\* The search broke out of the loop on a sample that was infinite.
C10_BreakReached ==
    /\ pc = "return_432"
    /\ Len(distances) > 1
    /\ is_infinite(distances[Len(distances)])

\* A spring with no decay and a negative angular frequency returned +infinity.
C10_NoDecayReached ==
    /\ pc = "return_402"
    /\ lt(spring.angular_frequency, ZERO)
    /\ out.val = INFINITY

(***************************************************************************)
(* Claims about zero-length updates                                        *)
(***************************************************************************)

\* C13: for a spring of any regime with finite parameters, and any value,
\* velocity and target, update with delta_time = 0 leaves both the value and
\* the velocity as they were.
C13_ZeroStepIsIdentity ==
    [][(steps' # steps /\ call'.delta_time = ZERO)
        => (cur_value' = cur_value /\ cur_velocity' = cur_velocity)]_vars

\* C13 restricted to the underdamped and critically damped regimes.
C13_HoldsUnlessOverdamped ==
    [][(steps' # steps /\ call'.delta_time = ZERO
                       /\ ge(spring.angular_frequency, ZERO))
        => (cur_value' = cur_value /\ cur_velocity' = cur_velocity)]_vars

\* What a zero-length update does to an overdamped spring: the value stays,
\* the velocity gains the remaining displacement target - value.
C13_OverdampedZeroStepAddsDelta ==
    [][(steps' # steps /\ call'.delta_time = ZERO
                       /\ lt(spring.angular_frequency, ZERO))
        => (/\ cur_value' = cur_value
            /\ cur_velocity' = add(cur_velocity, sub(call'.target, cur_value)))]_vars

(***************************************************************************)
(* One call of with_settling_duration_damping_ratio, step by step          *)
(***************************************************************************)

SettlingDurations == {R(1, 100), R(3, 100), R(1, 2), R(1, 1), R(2, 1), R(20, 1)}
DampingRatios == {R(-1, 1), R(3, 10), R(7, 10), R(1, 1), NAN}
Epsilons == {R(1, 100), R(1, 20), R(1, 10), R(1, 2), R(2, 1), R(-1, 100), ZERO}

RootCalls ==
    [name : {"with_settling_duration_damping_ratio"},
     settling_duration : SettlingDurations, damping_ratio : DampingRatios,
     epsilon : Epsilons]

\* The clamped arguments and derived values of the call in progress.
Terms == settling_terms(call.settling_duration, call.damping_ratio, call.epsilon)

InitRoot ==
    /\ call \in RootCalls
    /\ pc = "call"
    /\ spring = new(ZERO, ZERO, ZERO)
    /\ out = NoOut
    /\ SlotsIdle
    /\ SearchIdle
    /\ RootIdle

\* Lines 243-339: the locals, root_value = 0.0 and the call of the first pass.
Root_enter ==
    /\ pc = "call"
    /\ pc' = "find_root"
    /\ root_value' = ZERO
    /\ finder' = find_root_enter(Terms, R(5, 1), 12)
    /\ UNCHANGED << spring, call, out, slotVars, searchVars, passes >>

\* What a step of find_root leaves in the caller's root_value: `*result =
\* approximation` is executed on every return and nowhere else.
Result(fr) == IF fr.at = "return" THEN fr.approximation ELSE root_value

FindRoot_first ==
    /\ pc = "find_root"
    /\ finder.at = "first"
    /\ finder' = find_root_first(Terms, finder)
    /\ root_value' = Result(finder')
    /\ UNCHANGED << spring, call, out, pc, slotVars, searchVars, passes >>

FindRoot_second ==
    /\ pc = "find_root"
    /\ finder.at = "second"
    /\ finder' = find_root_second(Terms, finder)
    /\ root_value' = Result(finder')
    /\ UNCHANGED << spring, call, out, pc, slotVars, searchVars, passes >>

FindRoot_loop ==
    /\ pc = "find_root"
    /\ finder.at = "loop"
    /\ finder' = find_root_loop(Terms, finder)
    /\ root_value' = Result(finder')
    /\ UNCHANGED << spring, call, out, pc, slotVars, searchVars, passes >>

\* Lines 340-354: back in the caller after the first pass; the second pass is
\* called if the first returned true.
Root_after_first ==
    /\ pc = "find_root"
    /\ finder.at = "return"
    /\ passes = << >>
    /\ passes' = << finder >>
    /\ IF runs_second_pass(finder.flag)
       THEN /\ finder' = find_root_enter(Terms, R(1, 1), 20)
            /\ UNCHANGED << spring, pc >>
       ELSE /\ spring' = spring_from_root(root_value, Terms.damping_ratio)
            /\ pc' = "built"
            /\ UNCHANGED finder
    /\ UNCHANGED << call, out, slotVars, searchVars, root_value >>

\* Lines 347-374: back in the caller after the second pass, whose flag is
\* discarded.
Root_after_second ==
    /\ pc = "find_root"
    /\ finder.at = "return"
    /\ Len(passes) = 1
    /\ passes' = Append(passes, finder)
    /\ spring' = spring_from_root(root_value, Terms.damping_ratio)
    /\ pc' = "built"
    /\ UNCHANGED << call, out, slotVars, searchVars, finder, root_value >>

NextRoot ==
    \/ Root_enter
    \/ FindRoot_first
    \/ FindRoot_second
    \/ FindRoot_loop
    \/ Root_after_first
    \/ Root_after_second

SpecRoot == InitRoot /\ [][NextRoot]_vars

(***************************************************************************)
(* Claims about the root-finding passes                                    *)
(***************************************************************************)

Last(seq) == seq[Len(seq)]

NonFinite(x) == is_infinite(x) \/ is_nan(x)

C11_FirstFalseReached ==
    /\ pc = "built"
    /\ Len(passes) = 1
    /\ ~passes[1].flag
    /\ Len(passes[1].iterates) > 2
    /\ NonFinite(root_value)

\* The point find_root starts from: time_scale * initial_guess.
StartOf(fr) == mul(div(R(1, 1), Terms.duration), fr.initial_guess)

\* What C12 says of one find_root call, running or returned.
WithinBudget(fr) ==
    LET n == Len(fr.iterates)
    IN  /\ n <= fr.max_iterations
        /\ \A i \in 1..n :
               LET x == IF i = 1 THEN StartOf(fr) ELSE fr.iterates[i - 1]
               IN  /\ fr.iterates[i] = newton(Terms, x, x)
                   /\ NonFinite(fr.iterates[i]) =>
                          (i = n /\ fr.at = "return" /\ ~fr.flag)
        /\ fr.at = "return" => n >= 1
        /\ fr.at # "return" => n < fr.max_iterations

C12_Budget ==
    /\ Len(passes) <= 2
    /\ \A i \in 1..Len(passes) :
           /\ WithinBudget(passes[i])
           /\ passes[i].max_iterations = IF i = 1 THEN 12 ELSE 20
    /\ pc = "find_root" =>
           /\ WithinBudget(finder)
           /\ finder.max_iterations = IF passes = << >> THEN 12 ELSE 20
    /\ pc = "built" =>
           Len(passes[1].iterates)
               + (IF Len(passes) = 2 THEN Len(passes[2].iterates) ELSE 0) <= 32

\* How far a call of with_settling_duration_damping_ratio has got.
RootProgress ==
    IF pc = "call" THEN 0
    ELSE IF pc = "find_root"
    THEN 1 + 40 * Len(passes) + 2 * Len(finder.iterates)
           + (IF finder.at = "return" THEN 1 ELSE 0)
    ELSE 200

\* C12: each find_root call performs at most max_iterations Newton updates
\* x := x - f(x) / f'(x), at most 12 in the first pass and 20 in the second,
\* so at most 32 in one call; it returns false at the first iterate that is
\* infinite or NaN, with no update after it; and every step moves the call
\* strictly towards its return.
C12_FindRootTerminates == []C12_Budget /\ [][RootProgress' > RootProgress]_vars

\* Both passes used their whole budget: 12 and 20 updates.
C12_Witness ==
    /\ pc = "built"
    /\ Len(passes) = 2
    /\ Len(passes[1].iterates) = 12
    /\ Len(passes[2].iterates) = 20

\* A pass stopped on a non-finite iterate with budget left.
C12_EarlyExitReached ==
    /\ pc = "find_root"
    /\ finder.at = "return"
    /\ ~finder.flag
    /\ Len(finder.iterates) \in 3..11
    /\ NonFinite(Last(finder.iterates))

(***************************************************************************)
(* Claims about the spring built from the root                             *)
(***************************************************************************)

\* The damping ratio clamped to [EPSILON, 1.0], and the root times it.
Z14 == Terms.damping_ratio
RZ14 == mul(root_value, Z14)

\* What C14 says of the spring built from the root r = root_value:
\* mass = 1, angular_frequency >= 0, decay_constant = r * z when r >= r * z
\* (up to the last digit of the product) and r otherwise, and
\* angular_frequency = 0 when r < r * z.
BuiltAsClaimed ==
    /\ spring.mass = R(1, 1)
    /\ ge(spring.angular_frequency, ZERO)
    /\ ge(root_value, RZ14) =>
           (is_finite(spring.decay_constant)
            /\ Mag(spring.decay_constant - RZ14) <= 1)
    /\ lt(root_value, RZ14) =>
           (spring.decay_constant = root_value /\ spring.angular_frequency = ZERO)

\* C14: for every input and every finite root (positive, zero or negative)
\* the spring returned has mass = 1 and angular_frequency >= 0, with
\* decay_constant = r * z when r >= r * z and r otherwise, and
\* angular_frequency = 0 whenever r < r * z.
C14_SpringFromFiniteRoot ==
    (pc = "built" /\ is_finite(root_value)) => BuiltAsClaimed

\* C14 restricted to the roots whose square is finite.
C14_HoldsWhileSquareIsFinite ==
    (pc = "built" /\ is_finite(root_value)
                  /\ is_finite(mul(root_value, root_value))) => BuiltAsClaimed

\* What happens beyond: root * root and half_omega * half_omega both overflow
\* to infinity, their difference is NaN, and with root >= half_omega that NaN
\* is the angular_frequency of the spring returned.
C14_OverflowGivesNaN ==
    (pc = "built" /\ is_finite(root_value)
                  /\ is_infinite(mul(root_value, root_value))
                  /\ is_infinite(mul(RZ14, RZ14))
                  /\ ge(root_value, RZ14))
        => is_nan(spring.angular_frequency)

\* A negative finite root gave a critically damped spring with a negative
\* decay_constant.
C14_NegativeRootReached ==
    /\ pc = "built"
    /\ lt(root_value, ZERO)
    /\ is_finite(root_value)
    /\ lt(Z14, R(1, 1))
    /\ spring = new(ZERO, root_value, R(1, 1))

=============================================================================
